---- MODULE Spec2Model ----
(***************************************************************************)
(* Model of the repository scraper (src/src/scrap_repo.py, class scrapper) *)
(* and of the file locator (src/src/support.py).                           *)
(*                                                                         *)
(* Text (paths, file contents, chunks) is a sequence of one-character      *)
(* strings, so stripping, splitting, substring tests and extension         *)
(* extraction are computed character by character, as Python does.         *)
(* Python indices are 0-based: list[idx] is the element idx+1 of the       *)
(* sequence.                                                               *)
(***************************************************************************)
EXTENDS Integers, Sequences, FiniteSets, TLC

VARIABLES
    files_list,          \* self.files_list
    chunks,              \* self.chunks
    chunking_function,   \* self.chunking_function ("None" when absent)
    disk,                \* content of every file of the tree
    lastOp,              \* the call that produced this state, with its arguments
    repeat,              \* the call is a rescan repeating the previous rescan's arguments
    stale,               \* files_list was replaced by a bare update_files_list
    ret,                 \* what the call returned or raised
    out,                 \* what the call printed
    calls,               \* arguments the call passed to chunking_function
    extIn,               \* path handed to the extension computation
    extOut               \* extension computed for extIn

vars == <<files_list, chunks, chunking_function, disk, lastOp, repeat,
          stale, ret, out, calls, extIn, extOut>>

scraperVars == <<files_list, chunks, chunking_function, disk, lastOp,
                 repeat, stale, ret, out, calls>>

-----------------------------------------------------------------------------
(* Bounds *)

\* indices tried range from -IdxPad to len(files_list) - 1 + IdxPad
IdxPad == 1

\* longest file name handed to the extension computation
MaxNameLen == 5

-----------------------------------------------------------------------------
(* Text *)

SLASH == "/"
DOT == "."
NL == "\n"
SP == " "

Whitespace == {SP, NL, "\t"}

RECURSIVE LStrip(_)
LStrip(s) ==
    IF s = <<>> THEN <<>>
    ELSE IF Head(s) \in Whitespace THEN LStrip(Tail(s)) ELSE s

RECURSIVE RStrip(_)
RStrip(s) ==
    IF s = <<>> THEN <<>>
    ELSE IF s[Len(s)] \in Whitespace THEN RStrip(SubSeq(s, 1, Len(s) - 1)) ELSE s

\* str.strip()
StripNoOp(s) == s
Strip(s) == RStrip(LStrip(s))

\* sub in s, for Python strings
ContainsAsSegment(sub, s) ==
    \E i \in 0..(Len(s) - Len(sub)) :
        /\ SubSeq(s, i + 1, i + Len(sub)) = sub
        /\ (i = 0 \/ s[i] = SLASH)
        /\ (i + Len(sub) = Len(s) \/ s[i + Len(sub) + 1] = SLASH)
Contains(sub, s) ==
    \E i \in 0..(Len(s) - Len(sub)) : SubSeq(s, i + 1, i + Len(sub)) = sub

\* s.rfind(c) + 1: position (1-based) of the last c in s, 0 when there is none
RFind1(s, c) ==
    IF \E i \in 1..Len(s) : s[i] = c
    THEN CHOOSE i \in 1..Len(s) : s[i] = c /\ \A j \in (i + 1)..Len(s) : s[j] # c
    ELSE 0

RECURSIVE RStripSlash(_)
RStripSlash(s) ==
    IF s = <<>> THEN <<>>
    ELSE IF s[Len(s)] = SLASH THEN RStripSlash(SubSeq(s, 1, Len(s) - 1)) ELSE s

\* os.path.dirname (posixpath)
Dirname(p) ==
    LET head == SubSeq(p, 1, RFind1(p, SLASH))
    IN  IF head # <<>> /\ (\E i \in 1..Len(head) : head[i] # SLASH)
        THEN RStripSlash(head)
        ELSE head

\* os.path.join (posixpath), two components
Join(a, b) ==
    IF b # <<>> /\ Head(b) = SLASH THEN b
    ELSE IF a = <<>> \/ a[Len(a)] = SLASH THEN a \o b
    ELSE a \o <<SLASH>> \o b

\* os.path.splitext(p)[1] (genericpath._splitext): the last dot after the
\* last separator starts the extension, unless only dots precede it in the
\* file name
SplitextLastDot(p) ==
    LET sepIndex == RFind1(p, SLASH)
        dotIndex == RFind1(p, DOT)
    IN  IF dotIndex > sepIndex THEN SubSeq(p, dotIndex, Len(p)) ELSE <<>>
Splitext(p) ==
    LET sepIndex == RFind1(p, SLASH)
        dotIndex == RFind1(p, DOT)
    IN  IF dotIndex > sepIndex
           /\ \E k \in (sepIndex + 1)..(dotIndex - 1) : p[k] # DOT
        THEN SubSeq(p, dotIndex, Len(p))
        ELSE <<>>

\* str.split(): the maximal runs of non-whitespace characters, in order
RECURSIVE SplitWords(_, _, _)
SplitWords(s, word, acc) ==
    IF s = <<>> THEN (IF word = <<>> THEN acc ELSE Append(acc, word))
    ELSE IF Head(s) \in Whitespace
         THEN SplitWords(Tail(s), <<>>, IF word = <<>> THEN acc ELSE Append(acc, word))
         ELSE SplitWords(Tail(s), Append(word, Head(s)), acc)

-----------------------------------------------------------------------------
(* The file system the scraper runs on *)

s_r == <<"r">>
s_data == <<"d", "a", "t", "a">>
s_metadata == <<"m", "e", "t", "a", "d", "a", "t", "a">>
s_docs == <<"d", "o", "c", "s">>

n_a_md == <<"a", ".", "m", "d">>
n_b_txt == <<"b", ".", "t", "x", "t">>
n_c_MD == <<"c", ".", "M", "D">>
n_dot_md == <<".", "m", "d">>
n_x_txt == <<"x", ".", "t", "x", "t">>
n_y_txt == <<"y", ".", "t", "x", "t">>
n_data_md == <<"d", "a", "t", "a", ".", "m", "d">>
n_a_tar_gz == <<"a", ".", "t", "a", "r", ".", "g", "z">>

e_md == <<".", "m", "d">>

d_r == s_r
d_data == Join(s_r, s_data)
d_metadata == Join(s_r, s_metadata)
d_docs == Join(s_r, s_docs)

\* what scanning each directory yields: sub-directory names and file names,
\* in the (fixed) order the directory lists them
Tree ==
    (d_r :> [dirs |-> <<s_data, s_metadata, s_docs>>,
             files |-> <<n_a_md, n_b_txt, n_c_MD, n_dot_md>>])
    @@ (d_data :> [dirs |-> <<>>, files |-> <<n_x_txt>>])
    @@ (d_metadata :> [dirs |-> <<>>, files |-> <<n_y_txt>>])
    @@ (d_docs :> [dirs |-> <<>>, files |-> <<n_data_md, n_a_tar_gz>>])

f_a_md == Join(d_r, n_a_md)
f_b_txt == Join(d_r, n_b_txt)
f_c_MD == Join(d_r, n_c_MD)
f_dot_md == Join(d_r, n_dot_md)
f_x_txt == Join(d_data, n_x_txt)
f_y_txt == Join(d_metadata, n_y_txt)
f_data_md == Join(d_docs, n_data_md)
f_a_tar_gz == Join(d_docs, n_a_tar_gz)

\* a file's bytes decode as text, or reading it raises
Text(t) == [ok |-> TRUE, text |-> t]
Undecodable == [ok |-> FALSE, text |-> <<>>]

InitDisk ==
    (f_a_md :> Text(<<"x", SP, "y", NL>>))
    @@ (f_b_txt :> Text(<<SP>>))
    @@ (f_c_MD :> Text(<<"A">>))
    @@ (f_dot_md :> Text(<<"B">>))
    @@ (f_x_txt :> Text(<<"A", NL>>))
    @@ (f_y_txt :> Text(<<NL, "B">>))
    @@ (f_data_md :> Text(<<SP, "z">>))
    @@ (f_a_tar_gz :> Undecodable)

\* files modified after construction, and what is written to them
WritableFiles == {f_a_md}
NewContents == {Text(<<SP, "q", NL>>)}

\* arguments the scraper is called with
None == [given |-> FALSE, list |-> {}]
Some(l) == [given |-> TRUE, list |-> l]

Roots == {d_r, d_docs}
ExtensionFilters == {None, Some({e_md})}
IgnoreLists == {None, Some({s_data}), Some({s_docs})}
ChunkingFunctions == {"None", "split"}

-----------------------------------------------------------------------------
(* support.get_all_files_from_path *)

\* os.walk(top): top-down, one entry (path, files) per directory; a path
\* that cannot be scanned yields nothing
RECURSIVE Walk(_)
RECURSIVE WalkDirs(_, _, _)
Walk(top) ==
    IF top \notin DOMAIN Tree THEN <<>>
    ELSE <<[path |-> top, files |-> Tree[top].files]>>
         \o WalkDirs(top, Tree[top].dirs, 1)
WalkDirs(top, dirs, k) ==
    IF k > Len(dirs) THEN <<>>
    ELSE Walk(Join(top, dirs[k])) \o WalkDirs(top, dirs, k + 1)

\* file_extension in filetype_filter_list
ExtInFilterAnyCase(ext, filter) ==
    \E e \in filter :
        /\ Len(e) = Len(ext)
        /\ \A i \in 1..Len(e) :
              \/ e[i] = ext[i]
              \/ <<e[i], ext[i]>> \in {<<"m", "M">>, <<"M", "m">>, <<"d", "D">>, <<"D", "d">>}
ExtInFilter(ext, filter) == ext \in filter

\* the inner loop: for name in files
RECURSIVE FilesLoop(_, _, _, _, _)
FilesLoop(path, files, k, filetype_filter_list, file_path_list) ==
    IF k > Len(files) THEN file_path_list
    ELSE LET file_path == Join(path, files[k])
             keep == IF filetype_filter_list.given
                     THEN ExtInFilter(Splitext(file_path), filetype_filter_list.list)
                     ELSE TRUE
         IN  FilesLoop(path, files, k + 1, filetype_filter_list,
                       IF keep THEN Append(file_path_list, file_path) ELSE file_path_list)

\* the outer loop: for path, subdirs, files in os.walk(path_to_explore)
RECURSIVE WalkLoop(_, _, _, _)
WalkLoop(walk, k, filetype_filter_list, file_path_list) ==
    IF k > Len(walk) THEN file_path_list
    ELSE WalkLoop(walk, k + 1, filetype_filter_list,
                  FilesLoop(walk[k].path, walk[k].files, 1, filetype_filter_list,
                            file_path_list))

get_all_files_from_path(path_to_explore, filetype_filter_list) ==
    WalkLoop(Walk(path_to_explore), 1, filetype_filter_list, <<>>)

-----------------------------------------------------------------------------
(* scrapper: the methods as functions of the object's fields *)

\* what a call returns or raises
Returned(t) == [kind |-> "value", text |-> t, list |-> <<>>]
ReturnedList(l) == [kind |-> "list", text |-> <<>>, list |-> l]
ReturnedNone == [kind |-> "None", text |-> <<>>, list |-> <<>>]
IndexError == [kind |-> "IndexError", text |-> <<>>, list |-> <<>>]
IOError == [kind |-> "IOError", text |-> <<>>, list |-> <<>>]

Raised(r) == r.kind \in {"IndexError", "IOError"}

\* update_files_list: the filter of the candidates by their directory path
RECURSIVE IgnoreLoop(_, _, _, _)
IgnoreLoop(tmp_files_list, k, paths_to_ignore_list, acc) ==
    IF k > Len(tmp_files_list) THEN acc
    ELSE LET tmp_file == tmp_files_list[k]
             tmp_file_path == Dirname(tmp_file)
         IN  IgnoreLoop(tmp_files_list, k + 1, paths_to_ignore_list,
                 IF ~ \E path_to_ignore \in paths_to_ignore_list :
                          Contains(path_to_ignore, tmp_file_path)
                 THEN Append(acc, tmp_file)
                 ELSE acc)

\* self.files_list = [] before the filtering
KeepFilesList(old) == old
ResetFilesList(old) == <<>>

update_files_list(old, path_repo, file_extension_filter, paths_to_ignore_list) ==
    LET tmp_files_list == get_all_files_from_path(path_repo, file_extension_filter)
    IN  IF paths_to_ignore_list.given
        THEN IgnoreLoop(tmp_files_list, 1, paths_to_ignore_list.list, ResetFilesList(old))
        ELSE tmp_files_list

\* check_idx: TRUE when it raises IndexError
check_idx_upper_only(files, idx) == idx >= Len(files)
check_idx(files, idx) == idx < 0 \/ idx >= Len(files)

\* files_list[idx] as Python evaluates it: a negative index counts from the
\* end, and an index outside [-len, len) raises IndexError
PyInRange(files, idx) == -Len(files) <= idx /\ idx < Len(files)
PyIndex(files, idx) == IF idx < 0 THEN files[Len(files) + idx + 1] ELSE files[idx + 1]

\* get_file_content
get_file_content(files, d, idx) ==
    IF check_idx(files, idx) THEN IndexError
    ELSE IF ~PyInRange(files, idx) THEN IndexError
    ELSE LET file_path == PyIndex(files, idx)
         IN  IF d[file_path].ok THEN Returned(Strip(d[file_path].text)) ELSE IOError

\* self.chunking_function(file_content), for the chunking function the
\* scraper is constructed with: "split" is str.split
chunking_call(fn, file_content) ==
    SplitWords(file_content, <<>>, <<>>)

\* get_chunks_from_file; arg is what chunking_function was called with
get_chunks_from_file(files, d, fn, idx) ==
    IF check_idx(files, idx) THEN [r |-> IndexError, arg |-> <<>>]
    ELSE LET c == get_file_content(files, d, idx)
         IN  IF Raised(c) THEN [r |-> c, arg |-> <<>>]
             ELSE IF fn # "None"
                  THEN [r |-> ReturnedList(chunking_call(fn, c.text)), arg |-> <<c.text>>]
                  ELSE [r |-> ReturnedNone, arg |-> <<>>]

\* self.chunks += file_chunks
ReplaceChunks(acc, file_chunks) == file_chunks
ExtendChunks(acc, file_chunks) == acc \o file_chunks

\* create_chunk, chunking branch: the loop from file idx on
RECURSIVE ChunkLoop(_, _, _, _, _, _)
ChunkLoop(files, d, fn, idx, acc, log) ==
    IF idx >= Len(files) THEN [chunks |-> acc, r |-> ReturnedNone, calls |-> log]
    ELSE LET g == get_chunks_from_file(files, d, fn, idx)
         IN  IF Raised(g.r) THEN [chunks |-> acc, r |-> g.r, calls |-> log]
             ELSE ChunkLoop(files, d, fn, idx + 1, ExtendChunks(acc, g.r.list),
                            log \o g.arg)

\* merged_content += file_content + "\n\n"
MergeOneNewline(merged_content, file_content) == merged_content \o file_content \o <<NL>>
MergeStep(merged_content, file_content) == merged_content \o file_content \o <<NL, NL>>

\* create_chunk, merging branch: the loop from file idx on
RECURSIVE MergeLoop(_, _, _, _)
MergeLoop(files, d, idx, merged_content) ==
    IF idx >= Len(files) THEN [merged |-> merged_content, r |-> ReturnedNone]
    ELSE LET c == get_file_content(files, d, idx)
         IN  IF Raised(c) THEN [merged |-> merged_content, r |-> c]
             ELSE MergeLoop(files, d, idx + 1, MergeStep(merged_content, c.text))

\* self.chunks = [] at the start of create_chunk
KeepChunks(old) == old
ResetChunks(old) == <<>>

\* create_chunk: the chunks it leaves, what it returns or raises, and the
\* calls of chunking_function it made
create_chunk(old, files, d, fn) ==
    IF fn # "None"
    THEN ChunkLoop(files, d, fn, 0, ResetChunks(old), <<>>)
    ELSE LET m == MergeLoop(files, d, 0, <<>>)
         IN  [chunks |-> IF Raised(m.r) THEN ResetChunks(old)
                         ELSE Append(ResetChunks(old), m.merged),
              r |-> m.r, calls |-> <<>>]

\* print_file: the lines printed and what the call returns or raises
Line(k, idx, t) == [k |-> k, idx |-> idx, text |-> t]

print_file(files, d, idx, extended_output) ==
    IF extended_output
    THEN IF check_idx(files, idx) THEN [out |-> <<>>, r |-> IndexError]
         ELSE IF ~PyInRange(files, idx) THEN [out |-> <<>>, r |-> IndexError]
         ELSE LET file_path == PyIndex(files, idx)
                  c == get_file_content(files, d, idx)
                  top == <<Line("banner", idx, <<>>), Line("path", idx, file_path)>>
              IN  IF Raised(c) THEN [out |-> top, r |-> c]
                  ELSE [out |-> top \o <<Line("content", idx, c.text),
                                         Line("banner", idx, <<>>)>>,
                        r |-> ReturnedNone]
    ELSE LET c == get_file_content(files, d, idx)
         IN  IF Raised(c) THEN [out |-> <<>>, r |-> c]
             ELSE [out |-> <<Line("content", idx, c.text)>>, r |-> ReturnedNone]

\* print_all_files: the loop from file idx on
RECURSIVE PrintLoop(_, _, _, _, _)
PrintLoop(files, d, idx, extended_output, acc) ==
    IF idx >= Len(files) THEN [out |-> acc, r |-> ReturnedNone]
    ELSE LET p == print_file(files, d, idx, extended_output)
         IN  IF Raised(p.r) THEN [out |-> acc \o p.out, r |-> p.r]
             ELSE PrintLoop(files, d, idx + 1, extended_output, acc \o p.out)

-----------------------------------------------------------------------------
(* The scraper as a state machine: one action per public method *)

Call(op, idx, ext, root, filter, ignore) ==
    [op |-> op, idx |-> idx, extended |-> ext, root |-> root, filter |-> filter,
     ignore |-> ignore]
Plain(op) == Call(op, 0, FALSE, <<>>, None, None)
Indexed(op, idx, ext) == Call(op, idx, ext, <<>>, None, None)

Indices == (0 - IdxPad)..(Len(files_list) - 1 + IdxPad)

\* the state after scrapper(path_repo, file_extension_filter,
\* paths_to_ignore_list, chunking_function) returned
Init ==
    /\ chunking_function \in ChunkingFunctions
    /\ \E path_repo \in Roots, filter \in ExtensionFilters, ignore \in IgnoreLists :
          LET files == update_files_list(<<>>, path_repo, filter, ignore)
              c == create_chunk(<<>>, files, InitDisk, chunking_function)
          IN  /\ ~Raised(c.r)
              /\ files_list = files
              /\ chunks = c.chunks
              /\ calls = c.calls
              /\ lastOp = Call("init", 0, FALSE, path_repo, filter, ignore)
    /\ disk = InitDisk
    /\ repeat = FALSE
    /\ stale = FALSE
    /\ ret = ReturnedNone
    /\ out = <<>>
    /\ extIn = <<>>
    /\ extOut = <<>>

\* update_files_list_and_create_chunks(path_repo, file_extension_filter, paths_to_ignore_list)
Rescan(path_repo, filter, ignore) ==
    LET files == update_files_list(files_list, path_repo, filter, ignore)
        c == create_chunk(chunks, files, disk, chunking_function)
        call == Call("rescan", 0, FALSE, path_repo, filter, ignore)
    IN  /\ files_list' = files
        /\ chunks' = c.chunks
        /\ calls' = c.calls
        /\ ret' = c.r
        /\ out' = <<>>
        /\ repeat' = (lastOp = call)
        /\ stale' = FALSE
        /\ lastOp' = call
        /\ UNCHANGED <<chunking_function, disk, extIn, extOut>>

\* update_files_list(path_repo, file_extension_filter, paths_to_ignore_list)
UpdateFilesList(path_repo, filter, ignore) ==
    /\ files_list' = update_files_list(files_list, path_repo, filter, ignore)
    /\ stale' = TRUE
    /\ ret' = ReturnedNone
    /\ out' = <<>>
    /\ calls' = <<>>
    /\ repeat' = FALSE
    /\ lastOp' = Call("update_files_list", 0, FALSE, path_repo, filter, ignore)
    /\ UNCHANGED <<chunks, chunking_function, disk, extIn, extOut>>

\* create_chunk()
CreateChunk ==
    LET c == create_chunk(chunks, files_list, disk, chunking_function)
    IN  /\ chunks' = c.chunks
        /\ calls' = c.calls
        /\ ret' = c.r
        /\ out' = <<>>
        /\ repeat' = FALSE
        /\ stale' = FALSE
        /\ lastOp' = Plain("create_chunk")
        /\ UNCHANGED <<files_list, chunking_function, disk, extIn, extOut>>

\* get_file_content(idx)
GetFileContent(idx) ==
    /\ ret' = get_file_content(files_list, disk, idx)
    /\ out' = <<>>
    /\ calls' = <<>>
    /\ repeat' = FALSE
    /\ lastOp' = Indexed("get_file_content", idx, FALSE)
    /\ UNCHANGED <<files_list, chunks, chunking_function, disk, stale,
                   extIn, extOut>>

\* scraper[idx]
GetItem(idx) ==
    /\ ret' = IF check_idx(files_list, idx) THEN IndexError
              ELSE get_file_content(files_list, disk, idx)
    /\ out' = <<>>
    /\ calls' = <<>>
    /\ repeat' = FALSE
    /\ lastOp' = Indexed("getitem", idx, FALSE)
    /\ UNCHANGED <<files_list, chunks, chunking_function, disk, stale,
                   extIn, extOut>>

\* get_chunks_from_file(idx)
GetChunksFromFile(idx) ==
    LET g == get_chunks_from_file(files_list, disk, chunking_function, idx)
    IN  /\ ret' = g.r
        /\ calls' = g.arg
        /\ out' = <<>>
        /\ repeat' = FALSE
        /\ lastOp' = Indexed("get_chunks_from_file", idx, FALSE)
        /\ UNCHANGED <<files_list, chunks, chunking_function, disk, stale,
                       extIn, extOut>>

\* print_file(idx, extended_output)
PrintFile(idx, extended_output) ==
    LET p == print_file(files_list, disk, idx, extended_output)
    IN  /\ ret' = p.r
        /\ out' = p.out
        /\ calls' = <<>>
        /\ repeat' = FALSE
        /\ lastOp' = Indexed("print_file", idx, extended_output)
        /\ UNCHANGED <<files_list, chunks, chunking_function, disk, stale,
                       extIn, extOut>>

\* print_all_files(extended_output)
PrintAllFiles(extended_output) ==
    LET p == PrintLoop(files_list, disk, 0, extended_output, <<>>)
    IN  /\ ret' = p.r
        /\ out' = p.out
        /\ calls' = <<>>
        /\ repeat' = FALSE
        /\ lastOp' = Indexed("print_all_files", 0, extended_output)
        /\ UNCHANGED <<files_list, chunks, chunking_function, disk, stale,
                       extIn, extOut>>

\* the environment rewrites a file of the tree
WriteFile(f, c) ==
    /\ disk[f] # c
    /\ disk' = [disk EXCEPT ![f] = c]
    /\ ret' = ReturnedNone
    /\ out' = <<>>
    /\ calls' = <<>>
    /\ repeat' = FALSE
    /\ lastOp' = Plain("write")
    /\ UNCHANGED <<files_list, chunks, chunking_function, stale, extIn, extOut>>

Next ==
    \/ \E path_repo \in Roots, filter \in ExtensionFilters, ignore \in IgnoreLists :
          Rescan(path_repo, filter, ignore)
    \/ \E path_repo \in Roots, filter \in ExtensionFilters, ignore \in IgnoreLists :
          UpdateFilesList(path_repo, filter, ignore)
    \/ CreateChunk
    \/ \E idx \in Indices : GetFileContent(idx)
    \/ \E idx \in Indices : GetItem(idx)
    \/ \E idx \in Indices : GetChunksFromFile(idx)
    \/ \E idx \in Indices, extended_output \in BOOLEAN : PrintFile(idx, extended_output)
    \/ \E extended_output \in BOOLEAN : PrintAllFiles(extended_output)
    \/ \E f \in WritableFiles, c \in NewContents : WriteFile(f, c)

Spec == Init /\ [][Next]_vars

-----------------------------------------------------------------------------
(* The extension computation on its own: every short file name, in a        *)
(* directory with and without dots in its path                              *)

NameChars == {"a", DOT}
Names ==
    (UNION {[1..n -> NameChars] : n \in 1..MaxNameLen}) \ {<<DOT>>, <<DOT, DOT>>}
NameDirs == {<<"r">>, <<"r", DOT, "d">>, <<"r", SLASH, DOT, "h">>}

InitExt ==
    /\ chunking_function = "None"
    /\ files_list = <<>>
    /\ chunks = <<<<>>>>
    /\ calls = <<>>
    /\ lastOp = Call("init", 0, FALSE, d_docs, None, Some({s_docs}))
    /\ disk = InitDisk
    /\ repeat = FALSE
    /\ stale = FALSE
    /\ ret = ReturnedNone
    /\ out = <<>>
    /\ extIn = <<>>
    /\ extOut = <<>>

\* _, file_extension = os.path.splitext(file_path), file_path = os.path.join(path, name)
ComputeExtension(path, name) ==
    /\ extIn' = Join(path, name)
    /\ extOut' = Splitext(Join(path, name))
    /\ UNCHANGED scraperVars

NextExt == \E path \in NameDirs, name \in Names : ComputeExtension(path, name)

SpecExt == InitExt /\ [][NextExt]_vars

-----------------------------------------------------------------------------
(* Vocabulary of the properties, stated without the operators of the model *)

\* t is raw without its leading and trailing whitespace
IsStripOf(t, raw) ==
    \E i \in 0..Len(raw) : \E j \in i..Len(raw) :
        /\ t = SubSeq(raw, i + 1, j)
        /\ \A k \in 1..i : raw[k] \in Whitespace
        /\ \A k \in (j + 1)..Len(raw) : raw[k] \in Whitespace
        /\ t # <<>> => (t[1] \notin Whitespace /\ t[Len(t)] \notin Whitespace)

StrippedText(raw) ==
    CHOOSE t \in {SubSeq(raw, i + 1, j) : i \in 0..Len(raw), j \in 0..Len(raw)} :
        IsStripOf(t, raw)

\* sub occurs somewhere in s
IsSubstring(sub, s) ==
    \E i \in 0..Len(s) : \E j \in i..Len(s) : SubSeq(s, i + 1, j) = sub

\* the tree's directory that lists file f
ContainingDir(f) ==
    CHOOSE dir \in DOMAIN Tree :
        \E k \in 1..Len(Tree[dir].files) : f = dir \o <<SLASH>> \o Tree[dir].files[k]

\* f lies in the tree under root
IsUnder(root, f) ==
    /\ Len(f) > Len(root) + 1
    /\ SubSeq(f, 1, Len(root) + 1) = root \o <<SLASH>>

\* every file of the tree, in the order the traversal of the whole tree meets them
RECURSIVE FlattenSeq(_)
FlattenSeq(ss) == IF ss = <<>> THEN <<>> ELSE Head(ss) \o FlattenSeq(Tail(ss))

AllFilesInOrder ==
    LET w == Walk(d_r)
    IN  FlattenSeq([k \in 1..Len(w) |->
                      [n \in 1..Len(w[k].files) |-> w[k].path \o <<SLASH>> \o w[k].files[n]]])

Range(q) == {q[i] : i \in 1..Len(q)}

ValidIdx(idx) == 0 <= idx /\ idx < Len(files_list)

IndexOps == {"get_file_content", "getitem", "get_chunks_from_file", "print_file"}
RebuildOps == {"init", "rescan", "create_chunk"}
ScanOps == {"init", "rescan", "update_files_list"}

\* the stripped text of file i (1-based) of files_list
ContentOf(i) == StrippedText(disk[files_list[i]].text)

-----------------------------------------------------------------------------
(* C1 *)

\* C1: an index-taking call (get_file_content, scraper[idx],
\* get_chunks_from_file, print_file in either mode) with idx < 0 or
\* idx >= len(files_list) raises IndexError, prints nothing, returns nothing
\* and leaves files_list and chunks unchanged.
C1_OutOfRangeRaises ==
    [][(lastOp'.op \in IndexOps /\ ~(0 <= lastOp'.idx /\ lastOp'.idx < Len(files_list)))
         => /\ ret' = IndexError
            /\ out' = <<>>
            /\ files_list' = files_list
            /\ chunks' = chunks]_vars

C1_Witness ==
    /\ lastOp.op = "print_file"
    /\ lastOp.extended
    /\ lastOp.idx = -1
    /\ Len(files_list) > 1
    /\ ret = IndexError
    /\ out = <<>>

-----------------------------------------------------------------------------
(* C2 *)

\* C2 as stated: on an unchanged file system, in every reachable state,
\* chunks is what create_chunk derives from the current files_list.
C2_ChunksAlwaysFresh ==
    disk = InitDisk
        => chunks = create_chunk(<<>>, files_list, disk, chunking_function).chunks

\* C2 amended: on an unchanged file system, in every reachable state where
\* files_list was not last replaced by a bare update_files_list, chunks is
\* what create_chunk leaves when run on the current files_list.
C2_ChunksFreshUnlessBareUpdate ==
    (disk = InitDisk /\ ~stale)
        => chunks = create_chunk(<<>>, files_list, disk, chunking_function).chunks

C2_Witness ==
    /\ disk = InitDisk
    /\ ~stale
    /\ lastOp.op = "create_chunk"
    /\ Len(files_list) > 1
    /\ Len(chunks) > 1

-----------------------------------------------------------------------------
(* C3 *)

-----------------------------------------------------------------------------
(* C4 *)

\* C4: with a chunking function, when a rebuild has returned, chunks is the
\* concatenation in files_list order of the fragments the function returns
\* for each file's stripped content, and the function was called exactly
\* once per file, in order; nothing of an earlier rebuild remains.
C4_ChunksFlattenedInOrder ==
    (chunking_function # "None" /\ lastOp.op \in RebuildOps /\ ~Raised(ret))
        => /\ chunks = FlattenSeq([i \in 1..Len(files_list) |->
                                     SplitWords(ContentOf(i), <<>>, <<>>)])
           /\ calls = [i \in 1..Len(files_list) |-> ContentOf(i)]

C4_Witness ==
    /\ chunking_function = "split"
    /\ lastOp.op = "rescan"
    /\ ~Raised(ret)
    /\ Len(files_list) >= 2
    /\ \E i \in 1..Len(files_list) : SplitWords(ContentOf(i), <<>>, <<>>) = <<>>
    /\ \E i \in 1..Len(files_list) : Len(SplitWords(ContentOf(i), <<>>, <<>>)) = 2
    /\ Len(chunks) >= 3

-----------------------------------------------------------------------------
(* C5 *)

\* the test the ignore list applies to file f: some member occurs in the
\* path of the directory that lists f
Ignored(f, ignore) == \E member \in ignore : IsSubstring(member, ContainingDir(f))

\* C5: after a scan, files_list is the located files (same relative order)
\* without those whose containing-directory path has a member of the ignore
\* list as a substring; the file's own name is not tested; without an ignore
\* list it is the located files unchanged.
C5_IgnoreBySubstringOfDirectory ==
    lastOp.op \in ScanOps
        => LET located == get_all_files_from_path(lastOp.root, lastOp.filter)
           IN  IF lastOp.ignore.given
               THEN files_list =
                        SelectSeq(located, LAMBDA f : ~Ignored(f, lastOp.ignore.list))
               ELSE files_list = located

C5_Witness ==
    /\ lastOp.op = "rescan"
    /\ lastOp.root = d_r
    /\ ~lastOp.filter.given
    /\ lastOp.ignore = Some({s_data})
    /\ f_x_txt \notin Range(files_list)
    /\ f_y_txt \notin Range(files_list)
    /\ f_data_md \in Range(files_list)

-----------------------------------------------------------------------------
(* C6 *)

-----------------------------------------------------------------------------
(* C7 *)

\* C7: a rescan that immediately repeats the previous rescan's arguments
\* (nothing written in between) leaves files_list and chunks equal to
\* what the first left: both are replaced, neither grows.
C7_RescanIdempotent ==
    [][repeat' => (files_list' = files_list /\ chunks' = chunks)]_vars

C7_Witness ==
    /\ repeat
    /\ lastOp.ignore.given
    /\ Len(files_list) >= 2
    /\ Len(chunks) >= 2

-----------------------------------------------------------------------------
(* C8 *)

-----------------------------------------------------------------------------
(* C9 *)

\* the chunks of the first k files of files_list
PrefixChunks(k) ==
    FlattenSeq([i \in 1..k |-> SplitWords(ContentOf(i), <<>>, <<>>)])

\* C9: after a rescan or create_chunk that raised, chunks does not hold
\* the chunks of only a proper prefix of files_list, nor (without a chunking
\* function) no chunk at all.
C9_NoPartialRebuild ==
    (lastOp.op \in {"rescan", "create_chunk"} /\ Raised(ret))
        => /\ chunking_function = "None" => chunks # <<>>
           /\ chunking_function # "None" =>
                  ~ \E k \in 0..(Len(files_list) - 1) :
                        /\ \A i \in 1..k : disk[files_list[i]].ok
                        /\ chunks = PrefixChunks(k)

-----------------------------------------------------------------------------
(* C10 *)

\* the file name of a path, and the text from its last dot on
NameOf(p) == SubSeq(p, RFind1(p, SLASH) + 1, Len(p))
HasDot(name) == \E i \in 1..Len(name) : name[i] = DOT
FromLastDot(name) ==
    LET last == CHOOSE i \in 1..Len(name) :
                    name[i] = DOT /\ \A j \in (i + 1)..Len(name) : name[j] # DOT
    IN  [dot |-> last, ext |-> SubSeq(name, last, Len(name))]

\* C10 as stated: the extension is the file name from its last dot to the
\* end, and empty when the name has no dot, for every name shape.
C10_ExtensionFromLastDot ==
    LET name == NameOf(extIn)
    IN  extOut = IF HasDot(name) THEN FromLastDot(name).ext ELSE <<>>

\* C10 amended: the extension is the file name from its last dot to the end
\* when some character other than a dot precedes that dot in the name, and
\* empty otherwise (no dot, or only dots before the last one).
C10_ExtensionUnlessLeadingDots ==
    LET name == NameOf(extIn)
    IN  extOut = IF HasDot(name)
                    /\ \E i \in 1..(FromLastDot(name).dot - 1) : name[i] # DOT
                 THEN FromLastDot(name).ext
                 ELSE <<>>

C10_Witness ==
    /\ extIn = <<"r", DOT, "d", SLASH, DOT, "a", "a">>
    /\ extOut = <<>>

====
